---- MODULE Spec2Model ----
(***************************************************************************)
(* Duplicate removal of python_script/delete_db_duplicates.py:             *)
(* delete_dup_rows(rows) groups the rows of a batch around seeds with the  *)
(* pairwise test is_dup, plans the deletion of every non-seed member and   *)
(* issues one DELETE for the plan.                                         *)
(*                                                                         *)
(* Units.  Similarities are in hundredths (0.85 is 85), timestamps and     *)
(* TIME_WINDOW in hours, distances in km.  Coordinates are taken on one    *)
(* meridian (lon = 0) with the latitude measured in km of arc, i.e. in     *)
(* units of 1/6371 radian: there haversine's a = sin(dlat/2)^2 and its     *)
(* result R * 2 * atan2(sqrt(a), sqrt(1-a)) is R * |dlat|.                 *)
(* Python's 0-based indices are kept: rows and the lists built from them   *)
(* are functions on 0..N-1; a group is a sequence of such indices.         *)
(***************************************************************************)
EXTENDS Integers, Sequences, FiniteSets, TLC

VARIABLES
    rows,                   \* the batch handed to delete_dup_rows
    similarity,             \* what cosine_similarity(model.encode(texts)) yields for this batch
    store,                  \* rows of the batch still in table tweets (by batch index)
    pc,                     \* position in delete_dup_rows
    sim_matrix,             \* local sim_matrix, <<>> until line 30 has run
    i, j,                   \* loop indices of lines 41 and 46
    visited, group, groups, \* locals of lines 38, 39, 44
    duplicates_to_delete,   \* local of line 73
    error,                  \* where the run raised, "" while it has not
    encode_calls,           \* arguments of the model.encode calls of this run
    comparisons,            \* turns of `for j` that reached line 50 in this run
    compared,               \* the pairs (i, j) of those turns, in order
    asked,                  \* id lists handed to cur.execute in this run
    commits,                \* conn.commit calls of this run
    printed,                \* row counts printed by line 81 in this run
    returned,               \* what the call returned, once pc = "done"
    run,                    \* number of the current call
    prev                    \* outcome of the previous call, <<>> in the first

locals == <<sim_matrix, i, j, visited, group, groups, duplicates_to_delete>>

effects == <<encode_calls, comparisons, compared, asked, commits, printed, returned>>

calls == <<run, prev>>

vars == <<rows, similarity, store, pc, locals, error, effects, calls>>

\* ---------------------------------------------------------------- bounds
MaxN == 3
MaxRuns == 2

\* ------------------------------------------------------------- constants
SIM_THRESHOLD     == 85
SIM_THRESHOLD_GEO == 75
GEO_RADIUS_KM     == 50
TIME_WINDOW       == 24
Inf               == 1000000000

None == <<>>
Some(v) == <<v>>

Abs(x) == IF x < 0 THEN -x ELSE x

\* ------------------------------------------------- lists of lines 21..25
N == Cardinality(DOMAIN rows)
Idx == DOMAIN rows

ids        == [k \in Idx |-> rows[k].tweet_id]
texts      == [k \in Idx |-> rows[k].text]
timestamps == [k \in Idx |-> rows[k].created_at]
typologies == [k \in Idx |-> rows[k].conflict_typology]
coords     == [k \in Idx |-> IF rows[k].lat # None
                             THEN <<rows[k].lat[1], rows[k].lon[1]>>
                             ELSE None]

\* ------------------------------------------------------------- haversine
haversine_noNone(coord1, coord2) ==
    IF coord1 = None \/ coord2 = None
    THEN 0
    ELSE Abs(coord2[1] - coord1[1])

haversine(coord1, coord2) ==
    IF coord1 = None \/ coord2 = None
    THEN Inf
    ELSE Abs(coord2[1] - coord1[1])

\* ------------------------------------------- pairwise test, lines 50..62
same_type_always(a, b) == TRUE

same_type(a, b) == typologies[a] = typologies[b]

time_diff_signed(a, b) == timestamps[a][1] - timestamps[b][1]

time_diff(a, b) == Abs(timestamps[a][1] - timestamps[b][1])

is_close_strict(a, b) == time_diff(a, b) < TIME_WINDOW

is_close(a, b) == time_diff(a, b) <= TIME_WINDOW

sim(a, b) == sim_matrix[a][b]

dist_km(a, b) == haversine(coords[a], coords[b])

is_geo_inclusive(a, b) == dist_km(a, b) <= GEO_RADIUS_KM

is_geo(a, b) == dist_km(a, b) < GEO_RADIUS_KM

is_dup_geoOnly(a, b) ==
    same_type(a, b) /\ is_close(a, b) /\
        (sim(a, b) >= SIM_THRESHOLD_GEO /\ is_geo(a, b))

is_dup(a, b) ==
    same_type(a, b) /\ is_close(a, b) /\
        (   sim(a, b) >= SIM_THRESHOLD
         \/ (sim(a, b) >= SIM_THRESHOLD_GEO /\ is_geo(a, b)))

\* --------------------------------------------------- report, lines 71..73
RECURSIVE Flatten(_)
Flatten(ss) == IF ss = <<>> THEN <<>> ELSE Head(ss) \o Flatten(Tail(ss))

Members(g) == {g[k] : k \in 1..Len(g)}

duplicate_groups(gs) == SelectSeq(gs, LAMBDA g : Len(g) > 1)

flagged_ids(gs) ==
    LET dg == duplicate_groups(gs)
    IN  UNION {Members(dg[k]) : k \in 1..Len(dg)}

DeletionPlan_wholeGroup(gs) ==
    LET dg == duplicate_groups(gs)
    IN  Flatten([k \in 1..Len(dg) |-> [m \in 1..Len(dg[k]) |-> ids[dg[k][m]]]])

DeletionPlan_keepLast(gs) ==
    LET dg == duplicate_groups(gs)
    IN  Flatten([k \in 1..Len(dg) |->
                    [m \in 1..(Len(dg[k]) - 1) |-> ids[dg[k][m]]]])

DeletionPlan_skipSecond(gs) ==
    LET dg == duplicate_groups(gs)
    IN  Flatten([k \in 1..Len(dg) |->
                    [m \in 1..(Len(dg[k]) - 2) |-> ids[dg[k][m + 2]]]])

\* [ids[idx] for group in duplicate_groups for idx in group[1:]]
DeletionPlan(gs) ==
    LET dg == duplicate_groups(gs)
    IN  Flatten([k \in 1..Len(dg) |->
                    [m \in 1..Len(Tail(dg[k])) |-> ids[Tail(dg[k])[m]]]])

\* DELETE FROM tweets WHERE tweet_id = ANY(plan)
DeleteByIds(st, plan) ==
    {k \in st : \A m \in 1..Len(plan) : plan[m] # ids[k]}

\* ------------------------------------------------------------ the inputs
Typologies == {"MIL", "POL"}

\* a row of the SELECT: created_at, lat and lon are None or Some(value); the
\* text stands for summary_text and text, one token per stored row
Row(id, txt, ts, typ, lat) ==
    [tweet_id |-> id, text |-> txt, created_at |-> ts, conflict_typology |-> typ,
     lat |-> lat, lon |-> IF lat = None THEN None ELSE Some(0)]

\* batches of n rows; tweet_id is the position + 1, except that with
\* dupAt > 0 the row at dupAt carries the tweet_id of row 0
Batches(n, tss, typs, lats, dupAt) ==
    {[k \in 0..(n - 1) |->
        Row(IF k = dupAt THEN 1 ELSE k + 1, k + 1, f[k][1], f[k][2], f[k][3])] :
     f \in [0..(n - 1) -> tss \X typs \X lats]}

Pairs(n) == {p \in (0..(n - 1)) \X (0..(n - 1)) : p[1] < p[2]}

\* the matrix cosine_similarity returns: 1.0 on the diagonal
Matrix(n, off) ==
    [a \in 0..(n - 1) |-> [b \in 0..(n - 1) |->
        IF a = b THEN 100 ELSE off[<<a, b>>]]]

SymmetricMatrices(n, vals) ==
    {Matrix(n, [p \in ((0..(n - 1)) \X (0..(n - 1))) |->
                  IF p[1] < p[2] THEN u[p] ELSE IF p[2] < p[1] THEN u[<<p[2], p[1]>>] ELSE 100]) :
     u \in [Pairs(n) -> vals]}

AllMatrices(n, vals) ==
    {Matrix(n, u) : u \in [((0..(n - 1)) \X (0..(n - 1))) -> vals]}

Locals ==
    /\ pc = "start"
    /\ sim_matrix = <<>>
    /\ i = 0
    /\ j = 0
    /\ visited = {}
    /\ group = <<>>
    /\ groups = <<>>
    /\ duplicates_to_delete = <<>>

\* nothing has happened yet in this run
NoEffects ==
    /\ error = ""
    /\ encode_calls = <<>>
    /\ comparisons = 0
    /\ compared = <<>>
    /\ asked = <<>>
    /\ commits = 0
    /\ printed = <<>>
    /\ returned = None

FirstCall ==
    /\ store = DOMAIN rows
    /\ Locals
    /\ NoEffects
    /\ run = 1
    /\ prev = <<>>

\* batches of 0..MaxN rows of one typology, grouped by similarity and time
Init ==
    /\ \E n \in 0..MaxN :
         /\ \E dupAt \in {0} \cup {n - 1} :
                rows \in Batches(n, {Some(0), Some(24), Some(25)}, {"MIL"},
                                 {None}, dupAt)
         /\ similarity \in SymmetricMatrices(n, {70, 90})
    /\ FirstCall

\* batches of two rows, every case of the pairwise test
InitPair ==
    /\ rows \in Batches(2, {Some(0), Some(24), Some(25)}, Typologies,
                        {None, Some(0), Some(49), Some(99)}, 0)
    /\ similarity \in AllMatrices(2, {74, 75, 84, 85})
    /\ FirstCall

\* batches of 1..MaxN rows, some without created_at
InitTs ==
    /\ \E n \in 1..MaxN :
         /\ rows \in Batches(n, {None, Some(0), Some(24)}, {"MIL"}, {None}, 0)
         /\ similarity \in SymmetricMatrices(n, {90})
    /\ FirstCall

\* batches of 0..MaxN rows with any pattern of matches, some without
\* created_at
InitFair ==
    /\ \E n \in 0..MaxN :
         /\ rows \in Batches(n, {None, Some(0)}, {"MIL"}, {None}, 0)
         /\ similarity \in SymmetricMatrices(n, {70, 90})
    /\ FirstCall

Start_noEmptyCheck ==
    /\ pc = "start"
    /\ pc' = "encode"
    /\ UNCHANGED returned
    /\ UNCHANGED <<rows, similarity, store, locals, error, encode_calls,
                   comparisons, compared, asked, commits, printed, calls>>

\* ----------------------------------------------------------- the actions
\* lines 19..25
Start ==
    /\ pc = "start"
    /\ IF N = 0
       THEN /\ pc' = "done"
            /\ returned' = None
       ELSE /\ pc' = "encode"
            /\ UNCHANGED returned
    /\ UNCHANGED <<rows, similarity, store, locals, error, encode_calls,
                   comparisons, compared, asked, commits, printed, calls>>

Encode_noReset ==
    /\ pc = "encode"
    /\ encode_calls' = Append(encode_calls, texts)
    /\ \E ok \in BOOLEAN :
         IF ok
         THEN /\ sim_matrix' = similarity
              /\ pc' = "outer"
              /\ error' = error
         ELSE /\ sim_matrix' = sim_matrix
              /\ pc' = "raised"
              /\ error' = "encode"
    /\ visited' = visited
    /\ groups' = <<>>
    /\ i' = 0
    /\ UNCHANGED <<rows, similarity, store, j, group, duplicates_to_delete,
                   comparisons, compared, asked, commits, printed, returned, calls>>

Encode_swallow ==
    /\ pc = "encode"
    /\ encode_calls' = Append(encode_calls, texts)
    /\ \E ok \in BOOLEAN :
         IF ok
         THEN /\ sim_matrix' = similarity
              /\ pc' = "outer"
              /\ error' = error
         ELSE /\ sim_matrix' = sim_matrix
              /\ pc' = "done"
              /\ error' = "encode"
    /\ visited' = {}
    /\ groups' = <<>>
    /\ i' = 0
    /\ UNCHANGED <<rows, similarity, store, j, group, duplicates_to_delete,
                   comparisons, compared, asked, commits, printed, returned, calls>>

\* lines 28..39: the provider returns, or raises
Encode ==
    /\ pc = "encode"
    /\ encode_calls' = Append(encode_calls, texts)
    /\ \E ok \in BOOLEAN :
         IF ok
         THEN /\ sim_matrix' = similarity
              /\ pc' = "outer"
              /\ error' = error
         ELSE /\ sim_matrix' = sim_matrix
              /\ pc' = "raised"
              /\ error' = "encode"
    /\ visited' = {}
    /\ groups' = <<>>
    /\ i' = 0
    /\ UNCHANGED <<rows, similarity, store, j, group, duplicates_to_delete,
                   comparisons, compared, asked, commits, printed, returned, calls>>

OuterStep_noSkip ==
    /\ pc = "outer"
    /\ i < N
    /\ group' = <<i>>
    /\ visited' = visited \cup {i}
    /\ j' = i + 1
    /\ pc' = "inner"
    /\ UNCHANGED <<rows, similarity, store, sim_matrix, groups,
                   duplicates_to_delete, i, error, effects, calls>>

\* lines 41..45: one turn of `for i`
OuterStep ==
    /\ pc = "outer"
    /\ i < N
    /\ IF i \in visited
       THEN /\ i' = i + 1
            /\ UNCHANGED <<group, visited, j, pc>>
       ELSE /\ group' = <<i>>
            /\ visited' = visited \cup {i}
            /\ j' = i + 1
            /\ pc' = "inner"
            /\ i' = i
    /\ UNCHANGED <<rows, similarity, store, sim_matrix, groups,
                   duplicates_to_delete, error, effects, calls>>

InnerStep_noMark ==
    /\ pc = "inner"
    /\ j < N
    /\ IF j \in visited
       THEN /\ j' = j + 1
            /\ UNCHANGED <<group, visited, pc, error, comparisons, compared>>
       ELSE /\ comparisons' = comparisons + 1
            /\ compared' = Append(compared, <<i, j>>)
            /\ IF timestamps[i] = None \/ timestamps[j] = None
               THEN /\ pc' = "raised"
                    /\ error' = "compare"
                    /\ UNCHANGED <<group, visited, j>>
               ELSE /\ IF is_dup(i, j)
                       THEN /\ group' = Append(group, j)
                            /\ visited' = visited
                       ELSE UNCHANGED <<group, visited>>
                    /\ j' = j + 1
                    /\ UNCHANGED <<pc, error>>
    /\ UNCHANGED <<rows, similarity, store, sim_matrix, i, groups,
                   duplicates_to_delete, encode_calls, asked, commits, printed,
                   returned, calls>>

InnerStep_chain ==
    /\ pc = "inner"
    /\ j < N
    /\ IF j \in visited
       THEN /\ j' = j + 1
            /\ UNCHANGED <<group, visited, pc, error, comparisons, compared>>
       ELSE /\ comparisons' = comparisons + 1
            /\ compared' = Append(compared, <<i, j>>)
            /\ IF timestamps[i] = None \/ timestamps[j] = None
               THEN /\ pc' = "raised"
                    /\ error' = "compare"
                    /\ UNCHANGED <<group, visited, j>>
               ELSE /\ IF \E m \in Members(group) : is_dup(m, j)
                       THEN /\ group' = Append(group, j)
                            /\ visited' = visited \cup {j}
                       ELSE UNCHANGED <<group, visited>>
                    /\ j' = j + 1
                    /\ UNCHANGED <<pc, error>>
    /\ UNCHANGED <<rows, similarity, store, sim_matrix, i, groups,
                   duplicates_to_delete, encode_calls, asked, commits, printed,
                   returned, calls>>

InnerStep_eagerDelete ==
    /\ pc = "inner"
    /\ j < N
    /\ IF j \in visited
       THEN /\ j' = j + 1
            /\ UNCHANGED <<group, visited, pc, error, comparisons, compared, store>>
       ELSE /\ comparisons' = comparisons + 1
            /\ compared' = Append(compared, <<i, j>>)
            /\ IF timestamps[i] = None \/ timestamps[j] = None
               THEN /\ pc' = "raised"
                    /\ error' = "compare"
                    /\ UNCHANGED <<group, visited, j, store>>
               ELSE /\ IF is_dup(i, j)
                       THEN /\ group' = Append(group, j)
                            /\ visited' = visited \cup {j}
                            /\ store' = DeleteByIds(store, <<ids[j]>>)
                       ELSE UNCHANGED <<group, visited, store>>
                    /\ j' = j + 1
                    /\ UNCHANGED <<pc, error>>
    /\ UNCHANGED <<rows, similarity, sim_matrix, i, groups,
                   duplicates_to_delete, encode_calls, asked, commits, printed,
                   returned, calls>>

InnerStep_compareVisited ==
    /\ pc = "inner"
    /\ j < N
    /\ comparisons' = comparisons + 1
    /\ compared' = Append(compared, <<i, j>>)
    /\ IF timestamps[i] = None \/ timestamps[j] = None
       THEN /\ pc' = "raised"
            /\ error' = "compare"
            /\ UNCHANGED <<group, visited, j>>
       ELSE /\ IF is_dup(i, j)
               THEN /\ group' = Append(group, j)
                    /\ visited' = visited \cup {j}
               ELSE UNCHANGED <<group, visited>>
            /\ j' = j + 1
            /\ UNCHANGED <<pc, error>>
    /\ UNCHANGED <<rows, similarity, store, sim_matrix, i, groups,
                   duplicates_to_delete, encode_calls, asked, commits, printed,
                   returned, calls>>

\* lines 46..66: one turn of `for j`; the subtraction of line 51 raises
\* TypeError when a timestamp is None
InnerStep ==
    /\ pc = "inner"
    /\ j < N
    /\ IF j \in visited
       THEN /\ j' = j + 1
            /\ UNCHANGED <<group, visited, pc, error, comparisons, compared>>
       ELSE /\ comparisons' = comparisons + 1
            /\ compared' = Append(compared, <<i, j>>)
            /\ IF timestamps[i] = None \/ timestamps[j] = None
               THEN /\ pc' = "raised"
                    /\ error' = "compare"
                    /\ UNCHANGED <<group, visited, j>>
               ELSE /\ IF is_dup(i, j)
                       THEN /\ group' = Append(group, j)
                            /\ visited' = visited \cup {j}
                       ELSE UNCHANGED <<group, visited>>
                    /\ j' = j + 1
                    /\ UNCHANGED <<pc, error>>
    /\ UNCHANGED <<rows, similarity, store, sim_matrix, i, groups,
                   duplicates_to_delete, encode_calls, asked, commits, printed,
                   returned, calls>>

\* line 68, then the next turn of `for i`
AppendGroup ==
    /\ pc = "inner"
    /\ j = N
    /\ groups' = Append(groups, group)
    /\ i' = i + 1
    /\ pc' = "outer"
    /\ UNCHANGED <<rows, similarity, store, sim_matrix, j, visited, group,
                   duplicates_to_delete, error, effects, calls>>

\* lines 71..73
Report ==
    /\ pc = "outer"
    /\ i = N
    /\ duplicates_to_delete' = DeletionPlan(groups)
    /\ pc' = "delete"
    /\ UNCHANGED <<rows, similarity, store, sim_matrix, i, j, visited, group,
                   groups, error, effects, calls>>

Delete_always ==
    /\ pc = "delete"
    /\ asked' = Append(asked, duplicates_to_delete)
    /\ \E outcome \in {"ok", "execute", "commit"} :
         IF outcome = "ok"
         THEN /\ store' = DeleteByIds(store, duplicates_to_delete)
              /\ commits' = commits + 1
              /\ printed' = Append(printed, Cardinality(store) - Cardinality(store'))
              /\ pc' = "done"
              /\ returned' = None
              /\ error' = error
         ELSE /\ store' = store
              /\ commits' = IF outcome = "commit" THEN commits + 1 ELSE commits
              /\ pc' = "raised"
              /\ error' = outcome
              /\ UNCHANGED <<printed, returned>>
    /\ UNCHANGED <<rows, similarity, locals, encode_calls, comparisons, compared, calls>>

Delete_partial ==
    /\ pc = "delete"
    /\ IF duplicates_to_delete = <<>>
       THEN /\ pc' = "done"
            /\ returned' = None
            /\ UNCHANGED <<store, error, asked, commits, printed>>
       ELSE /\ asked' = Append(asked, duplicates_to_delete)
            /\ \E outcome \in {"ok", "execute", "commit"} :
                 IF outcome = "ok"
                 THEN /\ store' = DeleteByIds(store, duplicates_to_delete)
                      /\ commits' = commits + 1
                      /\ printed' = Append(printed, Cardinality(store) - Cardinality(store'))
                      /\ pc' = "done"
                      /\ returned' = None
                      /\ error' = error
                 ELSE /\ store' = IF outcome = "commit"
                                  THEN DeleteByIds(store, <<duplicates_to_delete[1]>>)
                                  ELSE store
                      /\ commits' = IF outcome = "commit" THEN commits + 1 ELSE commits
                      /\ pc' = "raised"
                      /\ error' = outcome
                      /\ UNCHANGED <<printed, returned>>
    /\ UNCHANGED <<rows, similarity, locals, encode_calls, comparisons, compared, calls>>

\* lines 75..81: execute and commit succeed, or one of them raises and
\* nothing is committed; the function then falls off its end
Delete ==
    /\ pc = "delete"
    /\ IF duplicates_to_delete = <<>>
       THEN /\ pc' = "done"
            /\ returned' = None
            /\ UNCHANGED <<store, error, asked, commits, printed>>
       ELSE /\ asked' = Append(asked, duplicates_to_delete)
            /\ \E outcome \in {"ok", "execute", "commit"} :
                 IF outcome = "ok"
                 THEN /\ store' = DeleteByIds(store, duplicates_to_delete)
                      /\ commits' = commits + 1
                      /\ printed' = Append(printed, Cardinality(store) - Cardinality(store'))
                      /\ pc' = "done"
                      /\ returned' = None
                      /\ error' = error
                 ELSE /\ store' = store
                      /\ commits' = IF outcome = "commit" THEN commits + 1 ELSE commits
                      /\ pc' = "raised"
                      /\ error' = outcome
                      /\ UNCHANGED <<printed, returned>>
    /\ UNCHANGED <<rows, similarity, locals, encode_calls, comparisons, compared, calls>>

\* the k-th stored row in batch order
Nth(st, k) == CHOOSE a \in st : Cardinality({b \in st : b < a}) = k

\* the caller fetches the stored rows again, in the same order
RefetchRows == [k \in 0..(Cardinality(store) - 1) |-> rows[Nth(store, k)]]

\* the provider's answer for the rows fetched again
RefetchSimilarity ==
    [a \in 0..(Cardinality(store) - 1) |->
        [b \in 0..(Cardinality(store) - 1) |->
            similarity[Nth(store, a)][Nth(store, b)]]]

\* the next invocation: the batch is fetched again and delete_dup_rows is
\* called on it; the results of the finished call are remembered in prev
Rerun ==
    /\ pc \in {"done", "raised"}
    /\ run < MaxRuns
    /\ run' = run + 1
    /\ prev' = Some([rows |-> rows, similarity |-> similarity, groups |-> groups,
                     plan |-> duplicates_to_delete, pc |-> pc, error |-> error,
                     planned |-> (pc = "done" /\ N > 0) \/ error \in {"execute", "commit"}])
    /\ rows' = RefetchRows
    /\ similarity' = RefetchSimilarity
    /\ store' = DOMAIN rows'
    /\ pc' = "start"
    /\ sim_matrix' = <<>>
    /\ groups' = <<>>
    /\ duplicates_to_delete' = <<>>
    /\ error' = ""
    /\ encode_calls' = <<>>
    /\ comparisons' = 0
    /\ compared' = <<>>
    /\ asked' = <<>>
    /\ commits' = 0
    /\ printed' = <<>>
    /\ returned' = None
    /\ UNCHANGED <<i, j, visited, group>>

Next ==
    \/ Start
    \/ Encode
    \/ OuterStep
    \/ InnerStep
    \/ AppendGroup
    \/ Report
    \/ Delete
    \/ Rerun

Spec == Init /\ [][Next]_vars

SpecPair == InitPair /\ [][Next]_vars

SpecTs == InitTs /\ [][Next]_vars

\* one turn of the loops of lines 41..68; the interpreter runs the next turn
\* as long as there is one
LoopTurn == OuterStep \/ InnerStep \/ AppendGroup

\* the same program, with the loops of lines 41..68 not stopping midway
SpecFair == InitFair /\ [][Next]_vars /\ WF_vars(LoopTurn)

\* ------------------------------------------------- notions of the claims
Range(s) == {s[k] : k \in 1..Len(s)}

UniqueIds == \A a, b \in Idx : a # b => rows[a].tweet_id # rows[b].tweet_id

\* the provider has answered, so the pairwise test has its inputs
Encoded == sim_matrix # <<>>

\* the pass of lines 41..68 has emitted its last group
GroupingFinished ==
    \/ pc = "outer" /\ i = N
    \/ pc \in {"delete", "done"}
    \/ pc = "raised" /\ error \in {"execute", "commit"}

\* line 73 has run
PlanComputed ==
    \/ pc = "delete"
    \/ pc = "done" /\ N > 0
    \/ pc = "raised" /\ error \in {"execute", "commit"}

MultiGroups == {g \in 1..Len(groups) : Len(groups[g]) > 1}

NonSeeds == UNION {Members(Tail(groups[g])) : g \in MultiGroups}

SameGroup(a, b) ==
    \/ \E g \in 1..Len(groups) : {a, b} \subseteq Members(groups[g])
    \/ {a, b} \subseteq Members(group)

\* the pair's raw attributes, read from the batch and the provider's matrix
SameCategory(a, b) == rows[a].conflict_typology = rows[b].conflict_typology
Dt(a, b) == Abs(rows[a].created_at[1] - rows[b].created_at[1])
LacksCoordinate(a) == rows[a].lat = None
Km(a, b) == Abs(rows[a].lat[1] - rows[b].lat[1])

\* C1: when the grouping pass has finished, the emitted groups partition the
\* index set 0..N-1: every index is in exactly one group, no group is empty
\* and no index occurs twice in a group.
C1_Partition ==
    GroupingFinished =>
        /\ \A k \in Idx :
             Cardinality({g \in 1..Len(groups) : k \in Members(groups[g])}) = 1
        /\ \A g \in 1..Len(groups) :
             /\ Len(groups[g]) >= 1
             /\ Members(groups[g]) \subseteq Idx
             /\ Cardinality(Members(groups[g])) = Len(groups[g])

C1_Witness ==
    /\ GroupingFinished
    /\ N >= 3
    /\ Len(groups) = 2
    /\ \E g \in 1..Len(groups) : Len(groups[g]) >= 2

C3_SurvivorIsSeed ==
    (PlanComputed /\ UniqueIds) =>
        \A g \in MultiGroups :
            /\ {k \in Members(groups[g]) :
                   ids[k] \notin Range(duplicates_to_delete)} = {groups[g][1]}
            /\ \A k \in Members(groups[g]) : groups[g][1] <= k

C3_Witness ==
    /\ PlanComputed
    /\ UniqueIds
    /\ \E g \in MultiGroups : groups[g][1] > 0 /\ Len(groups[g]) = 2

\* C4: the plan holds exactly the ids of the non-seed members of the groups
\* of more than one member, once each; with unique ids it holds no id twice,
\* no seed's id and no id of a singleton group.
C4_PlanExact ==
    PlanComputed =>
        /\ Range(duplicates_to_delete) = {ids[k] : k \in NonSeeds}
        /\ Len(duplicates_to_delete) = Cardinality(NonSeeds)
        /\ UniqueIds =>
             /\ Cardinality(Range(duplicates_to_delete)) = Len(duplicates_to_delete)
             /\ \A g \in 1..Len(groups) :
                    ids[groups[g][1]] \notin Range(duplicates_to_delete)

C4_Witness ==
    /\ PlanComputed
    /\ UniqueIds
    /\ Len(duplicates_to_delete) = 2
    /\ \E g \in 1..Len(groups) : Len(groups[g]) = 3

\* C5: with a symmetric similarity value the pairwise test gives the same
\* answer whichever record is the seed and whichever the candidate.
C5_Symmetric ==
    Encoded =>
        \A a, b \in Idx :
            similarity[a][b] = similarity[b][a] => (is_dup(a, b) <=> is_dup(b, a))

C5_Witness ==
    /\ groups = <<<<0, 1>>>>
    /\ similarity[0][1] = similarity[1][0]
    /\ rows[0].created_at # rows[1].created_at
    /\ is_dup(1, 0)

\* C6: two records of different categories never match and never share a
\* group, whatever their similarity, time difference and distance.
C6_CategoryVeto ==
    Encoded =>
        \A a, b \in Idx :
            ~SameCategory(a, b) => (~is_dup(a, b) /\ ~SameGroup(a, b))

C6_Witness ==
    /\ GroupingFinished
    /\ groups = <<<<0>>, <<1>>>>
    /\ ~SameCategory(0, 1)
    /\ similarity[0][1] = 85
    /\ Dt(0, 1) = 0
    /\ ~LacksCoordinate(0) /\ ~LacksCoordinate(1) /\ Km(0, 1) = 0

\* C7: two records more than TIME_WINDOW apart never match; a difference of
\* exactly TIME_WINDOW is not rejected by the gate.
C7_TemporalGate ==
    Encoded =>
        \A a, b \in Idx :
            /\ Dt(a, b) > 24 => (~is_dup(a, b) /\ (a # b => ~SameGroup(a, b)))
            /\ (Dt(a, b) = 24 /\ SameCategory(a, b) /\ similarity[a][b] >= 85)
                   => is_dup(a, b)

C7_Witness ==
    /\ groups = <<<<0, 1>>>>
    /\ Dt(0, 1) = 24

\* C8: same category, time difference within the window and sim >= 0.85
\* (0.85 included) is a match whatever the distance, also with coordinates
\* far apart or absent.
C8_HighSimilarity ==
    Encoded =>
        \A a, b \in Idx :
            (SameCategory(a, b) /\ Dt(a, b) <= 24 /\ similarity[a][b] >= 85)
                => is_dup(a, b)

C8_Witness ==
    /\ groups = <<<<0, 1>>>>
    /\ similarity[0][1] = 85
    /\ LacksCoordinate(0)
    /\ ~LacksCoordinate(1)

\* C9: same category, time difference within the window and
\* 0.75 <= sim < 0.85: a match exactly when the distance is strictly below
\* 50 km; with sim < 0.75 never a match.
C9_ModerateSimilarity ==
    Encoded =>
        \A a, b \in Idx :
            /\ (SameCategory(a, b) /\ Dt(a, b) <= 24
                    /\ similarity[a][b] >= 75 /\ similarity[a][b] < 85)
                 => (is_dup(a, b) <=>
                        (~LacksCoordinate(a) /\ ~LacksCoordinate(b) /\ Km(a, b) < 50))
            /\ similarity[a][b] < 75 => ~is_dup(a, b)

C9_Witness ==
    /\ groups = <<<<0, 1>>>>
    /\ similarity[0][1] = 75
    /\ Km(0, 1) = 49

\* C10: when a record of the pair has no coordinate the distance is the
\* unbounded sentinel, the geo branch gives no match and the pair matches
\* only through sim >= 0.85 with both gates passed.
C10_MissingGeo ==
    Encoded =>
        \A a, b \in Idx :
            (LacksCoordinate(a) \/ LacksCoordinate(b)) =>
                /\ dist_km(a, b) = Inf
                /\ ~is_geo(a, b)
                /\ is_dup(a, b) <=>
                     (SameCategory(a, b) /\ Dt(a, b) <= 24 /\ similarity[a][b] >= 85)

C10_Witness ==
    /\ GroupingFinished
    /\ groups = <<<<0>>, <<1>>>>
    /\ LacksCoordinate(0) /\ ~LacksCoordinate(1)
    /\ SameCategory(0, 1)
    /\ Dt(0, 1) = 0
    /\ similarity[0][1] = 84

\* a member jj of a group, not its seed, and a later record k that matches jj
\* but not the seed
Chain(g, jj, k) ==
    /\ jj \in Members(Tail(groups[g]))
    /\ k > jj
    /\ is_dup(jj, k)
    /\ ~is_dup(groups[g][1], k)

\* C11: when j is in the group of seed i and a later record k matches j but
\* not i, k is not in i's group: k and j end in different groups, since
\* candidates are compared with seeds only.
C11_SeedOnly ==
    GroupingFinished =>
        \A g \in 1..Len(groups) : \A jj, k \in Idx :
            Chain(g, jj, k) => k \notin Members(groups[g])

C11_Witness ==
    /\ GroupingFinished
    /\ \E g \in 1..Len(groups) : \E jj, k \in Idx :
          /\ Chain(g, jj, k)
          /\ \E h \in 1..Len(groups) : h # g /\ k \in Members(groups[h])

\* this call works on the batch and the similarities of the previous call,
\* which computed its plan
SameBatchAgain ==
    /\ prev # <<>>
    /\ prev[1].planned
    /\ prev[1].rows = rows
    /\ prev[1].similarity = similarity

\* C12: a second run on the same ordered batch, with the same similarities
\* and the store not changed in between, ends with the groups, the survivors
\* and the deletion plan of the first.
C12_Deterministic ==
    (SameBatchAgain /\ PlanComputed) =>
        /\ groups = prev[1].groups
        /\ duplicates_to_delete = prev[1].plan
        /\ {groups[g][1] : g \in 1..Len(groups)}
              = {prev[1].groups[g][1] : g \in 1..Len(prev[1].groups)}

C12_Witness ==
    /\ SameBatchAgain
    /\ PlanComputed
    /\ Len(groups) = 2
    /\ Len(duplicates_to_delete) = 1

C15_ProviderFailureAborts ==
    error = "encode" =>
        /\ pc = "raised"
        /\ comparisons = 0
        /\ groups = <<>>
        /\ duplicates_to_delete = <<>>
        /\ asked = <<>>
        /\ commits = 0
        /\ store = Idx

C15_Witness ==
    /\ error = "encode"
    /\ pc = "raised"
    /\ N = 3
    /\ Len(encode_calls) = 1

MissingTimestamp == \E k \in Idx : rows[k].created_at = None

\* C16: a run on a batch of any size that holds a record without a usable
\* timestamp ends with an error and deletes nothing; it never completes
\* normally.
C16_MissingTimestampRejected ==
    MissingTimestamp => (pc # "done" /\ store = Idx)

DeleteFailed(e) == e \in {"execute", "commit"}

NewestFirst ==
    \A a, b \in Idx : a < b => rows[a].created_at[1] >= rows[b].created_at[1]

OldestFirst ==
    \A a, b \in Idx : a < b => rows[a].created_at[1] <= rows[b].created_at[1]

\* the members of groups[g] whose id the plan spares, and those it names
Spared(g) ==
    {k \in Members(groups[g]) : ids[k] \notin Range(duplicates_to_delete)}

Planned(g) ==
    {k \in Members(groups[g]) : ids[k] \in Range(duplicates_to_delete)}

\* C18: in a batch supplied newest-first the record kept of a group of more
\* than one member is at least as recent as every member deleted from that
\* group; in a batch supplied oldest-first it is at least as old.
C18_OrderDecidesSurvivor ==
    PlanComputed =>
        \A g \in MultiGroups : \A s \in Spared(g) : \A d \in Planned(g) :
            /\ NewestFirst => rows[s].created_at[1] >= rows[d].created_at[1]
            /\ OldestFirst => rows[s].created_at[1] <= rows[d].created_at[1]

C18_Witness ==
    /\ PlanComputed
    /\ NewestFirst
    /\ UniqueIds
    /\ \E g \in MultiGroups : \E s \in Spared(g) : \E d \in Planned(g) :
          rows[s].created_at[1] > rows[d].created_at[1]

\* C19: a completed run hands its caller {groupsFound, duplicatesDeleted}:
\* the number of groups emitted and the number of rows removed from the
\* store.
C19_ReportsOutcome ==
    pc = "done" =>
        returned = Some([groupsFound |-> Len(groups),
                         duplicatesDeleted |-> N - Cardinality(store)])

\* C20: a run on a non-empty batch calls the similarity provider once, with
\* the texts of all N rows in batch order and before the first pair is
\* compared; a run on an empty batch does not call it.
C20_OneEncodeCall ==
    /\ Len(encode_calls) <= 1
    /\ comparisons > 0 => Len(encode_calls) = 1
    /\ (N > 0 /\ pc \notin {"start", "encode"}) =>
          encode_calls = <<[k \in Idx |-> rows[k].text]>>
    /\ N = 0 => encode_calls = <<>>

C20_Witness ==
    /\ pc = "inner"
    /\ N = 3
    /\ comparisons = 1
    /\ Len(encode_calls) = 1
    /\ DOMAIN encode_calls[1] = 0..2

\* the indices of the groups emitted before the g-th one
EarlierMembers(g) == UNION {Members(groups[h]) : h \in 1..(g - 1)}

\* C21: when the pass has finished, the group seeded by index s is s followed
\* by exactly the indices k > s that are in no group seeded earlier and match
\* s; members are in increasing index order, groups are in increasing seed
\* order, and a seed that no one matches is emitted as a singleton group.
C21_ExactGroups ==
    GroupingFinished =>
        /\ \A g \in 1..Len(groups) :
             LET s == groups[g][1]
             IN  /\ s \notin EarlierMembers(g)
                 /\ Members(groups[g]) =
                        {s} \cup {k \in Idx : /\ k > s
                                              /\ k \notin EarlierMembers(g)
                                              /\ is_dup(s, k)}
                 /\ \A m \in 1..(Len(groups[g]) - 1) :
                        groups[g][m] < groups[g][m + 1]
        /\ \A g \in 1..(Len(groups) - 1) : groups[g][1] < groups[g + 1][1]
        /\ \A k \in Idx :
             (k \notin UNION {Members(Tail(groups[g])) : g \in 1..Len(groups)})
                 => \E g \in 1..Len(groups) : groups[g][1] = k

C21_Witness ==
    /\ GroupingFinished
    /\ N = 3
    /\ Len(groups) = 2
    /\ groups[1] = <<0, 2>>
    /\ groups[2] = <<1>>
    /\ is_dup(1, 2)

\* the first member of every emitted group
Seeds == {groups[g][1] : g \in 1..Len(groups)}

\* the finished call before this one applied its plan (or had none to apply)
PlanApplied == prev # None /\ prev[1].pc = "done"

PassRunning == pc = "inner" \/ (pc = "outer" /\ i < N)

\* the groups emitted so far, with the one under construction
AllGroups ==
    IF pc = "inner" \/ (pc = "raised" /\ error = "compare")
    THEN Append(groups, group)
    ELSE groups

\* the seed of every comparison was in no group seeded before it, and neither
\* was its candidate
ComparedUnvisited ==
    \A m \in 1..Len(compared) :
        \A g \in 1..Len(AllGroups) :
            AllGroups[g][1] < compared[m][1] =>
                {compared[m][1], compared[m][2]} \cap Members(AllGroups[g]) = {}

ComparisonsBounded ==
    /\ comparisons = Len(compared)
    /\ comparisons <= (N * (N - 1)) \div 2
    /\ \A m \in 1..Len(compared) :
         /\ {compared[m][1], compared[m][2]} \subseteq Idx
         /\ compared[m][1] < compared[m][2]
         /\ compared[m][1] \in {AllGroups[g][1] : g \in 1..Len(AllGroups)}
    /\ \A m, n \in 1..Len(compared) :
         m # n => {compared[m][1], compared[m][2]} # {compared[n][1], compared[n][2]}
    /\ ComparedUnvisited
    /\ \A k \in Idx :
         Cardinality({g \in 1..Len(AllGroups) : k \in Members(AllGroups[g])}) <= 1

\* C23: the grouping pass ends for every batch; each unordered pair of indices
\* is compared at most once, with the smaller index as the seed; an index
\* already in a group is neither compared nor grouped again; so the pass makes
\* at most N(N-1)/2 comparisons.
C23_Terminates ==
    /\ []ComparisonsBounded
    /\ PassRunning ~> (GroupingFinished \/ pc = "raised")

C23_Witness ==
    /\ GroupingFinished
    /\ N = 3
    /\ comparisons = 3
    /\ compared = <<(<<0, 1>>), (<<0, 2>>), (<<1, 2>>)>>
    /\ Len(groups) = 3

====
